---------------------------- MODULE Spec2Model ----------------------------
(***************************************************************************)
(* Model of upgrade_tests/helpers/existence.py: the snapshot store, the    *)
(* entity locator, the pre/post upgrade correlator, the template store and *)
(* the variant tolerant template comparison.                               *)
(*                                                                         *)
(* Python strings are sequences of one-character strings, so that          *)
(* formatting, str(), lower(), strip() and the substring test are computed *)
(* and not assumed.  A Python value is a record [tag, val]:                *)
(*   "str"   val = the characters          "none"  val = <<>>              *)
(*   "int"   val = the number              "list"  val = sequence of values*)
(*   "tuple" val = sequence of values      "dict"  val = function key->value*)
(*   "raise" val = the name of the exception raised instead of a return    *)
(***************************************************************************)
EXTENDS Integers, Sequences, FiniteSets, TLC

VARIABLES
    settings,     \* upgrade.helpers.settings: endpoint, from_version, to_version
    template_varients, \* variants.template_varients: the expected diff lines per type
    datastores,   \* the files '<datastore>_<endpoint>' : JSON text or NoFile
    templates,    \* the directories '<state>_templates/<type>' : NoDir or files
    clock,        \* the file system's time of the last write
    put,          \* history: the snapshot last handed to json.dump, per file
    written,      \* history: the text last written per state, type and id
    io,           \* the remote reads and file accesses of the last call, in order
    differ,       \* number of difflib.Differ comparisons made by the last call
    printed,      \* what the last call printed
    call,         \* the last call made: [op, args]
    result        \* what the last call returned or raised

vars == <<settings, template_varients, datastores, templates, clock, put, written, io,
          differ, printed, call, result>>

(* what a call never touches unless it writes *)
store == <<settings, template_varients, datastores, templates, clock, put, written>>

-----------------------------------------------------------------------------
(* Python values *)

PyStr(chars) == [tag |-> "str", val |-> chars]
PyNone == [tag |-> "none", val |-> <<>>]
PyInt(n) == [tag |-> "int", val |-> n]
PyList(items) == [tag |-> "list", val |-> items]
PyTuple(items) == [tag |-> "tuple", val |-> items]
PyBool(b) == [tag |-> "bool", val |-> b]
PyDict(f) == [tag |-> "dict", val |-> f]
Raise(exc) == [tag |-> "raise", val |-> exc]

IsRaise(v) == v.tag = "raise"
(* bool(v) *)
Truthy(v) ==
    CASE v.tag = "none" -> FALSE
      [] v.tag = "int" -> v.val # 0
      [] v.tag \in {"str", "list", "tuple"} -> v.val # <<>>
      [] v.tag = "dict" -> DOMAIN v.val # {}

(* string literals of the source *)
MISSING == <<"m","i","s","s","i","n","g">>
ENTITY_MISSING == <<" ","e","n","t","i","t","y"," ">> \o MISSING
ATTRIBUTE_MISSING_FOR ==
    <<" ","a","t","t","r","i","b","u","t","e"," ">> \o MISSING \o <<" ","f","o","r"," ">>
COLON == <<" ",":"," ">>
NONE_TEXT == <<"N","o","n","e">>
IN_PREUPGRADE ==
    <<" ","i","n"," ","p","r","e","u","p","g","r","a","d","e"," ","v","e","r","s","i","o","n">>
IN_POSTUPGRADE ==
    <<" ","i","n"," ","p","o","s","t","u","p","g","r","a","d","e"," ","v","e","r","s","i","o","n">>

(* `sub in s` for two strings *)
Contains(sub, s) ==
    \E i \in 1..(Len(s) - Len(sub) + 1) : SubSeq(s, i, i + Len(sub) - 1) = sub

(* str.lower() *)
LowerChar(c) ==
    CASE c = "A" -> "a" [] c = "D" -> "d" [] c = "H" -> "h" [] c = "I" -> "i"
      [] c = "O" -> "o" [] c = "P" -> "p" [] c = "S" -> "s" [] c = "T" -> "t"
      [] OTHER -> c
Lower(s) == [i \in 1..Len(s) |-> LowerChar(s[i])]

Digit(d) == <<"0","1","2","3","4","5","6","7","8","9">>[d + 1]
RECURSIVE Decimal(_)
Decimal(n) == IF n < 10 THEN <<Digit(n)>> ELSE Decimal(n \div 10) \o <<Digit(n % 10)>>

(* repr() of a list item and str() of a value *)
Repr(v) ==
    CASE v.tag = "str" -> <<"'">> \o v.val \o <<"'">>
      [] v.tag = "none" -> NONE_TEXT
      [] v.tag = "int" -> Decimal(v.val)
RECURSIVE JoinRepr(_)
JoinRepr(items) ==
    IF items = <<>> THEN <<>>
    ELSE IF Len(items) = 1 THEN Repr(items[1])
    ELSE Repr(items[1]) \o <<",", " ">> \o JoinRepr(Tail(items))
StrOf(v) ==
    CASE v.tag = "str" -> v.val
      [] v.tag = "none" -> NONE_TEXT
      [] v.tag = "int" -> Decimal(v.val)
      [] v.tag = "list" -> <<"[">> \o JoinRepr(v.val) \o <<"]">>


-----------------------------------------------------------------------------
(* EntityLocator *)

(* dict.get(key, default) *)
DictGet(dct, key, default) == IF key \in DOMAIN dct.val THEN dct.val[key] ELSE default

(* the loop of lines 183-188: the first value that is not None, else KeyError *)
RECURSIVE FirstNotNone(_)
FirstNotNone(values) ==
    IF values = <<>> THEN Raise("KeyError")
    ELSE IF Head(values) # PyNone THEN Head(values)
    ELSE FirstNotNone(Tail(values))

(* mutant: entities without the key are skipped instead of giving None *)
RECURSIVE ValuesPresent(_, _)
ValuesPresent(lst, data_key) ==
    IF lst = <<>> THEN <<>>
    ELSE IF data_key \in DOMAIN Head(lst).val
    THEN <<Head(lst).val[data_key]>> \o ValuesPresent(Tail(lst), data_key)
    ELSE ValuesPresent(Tail(lst), data_key)
find_on_list_of_dicts_skipping(lst, data_key, all_) ==
    IF all_ THEN PyList(ValuesPresent(lst, data_key))
    ELSE FirstNotNone(ValuesPresent(lst, data_key))

find_on_list_of_dicts(lst, data_key, all_) ==
    LET dct_values == [i \in 1..Len(lst) |-> DictGet(lst[i], data_key, PyNone)]
    IN  IF all_ THEN PyList(dct_values) ELSE FirstNotNone(dct_values)

MissingEntity(search_key, search_value) ==
    PyStr(search_key \o COLON \o search_value \o ENTITY_MISSING)
MissingAttribute(attr, search_key, search_value) ==
    PyStr(attr \o ATTRIBUTE_MISSING_FOR \o search_key \o COLON \o search_value)

(* mutant: dict.get(attr) without the default of line 215 *)
RECURSIVE ScanForCriteriaNoDefault(_, _, _, _)
ScanForCriteriaNoDefault(lst_of_dct, search_key, search_value, attr) ==
    IF lst_of_dct = <<>> THEN MissingEntity(search_key, search_value)
    ELSE LET single_dict == Head(lst_of_dct)
         IN  IF /\ search_key \in DOMAIN single_dict.val
                /\ search_value = StrOf(single_dict.val[search_key])
             THEN DictGet(single_dict, attr, PyNone)
             ELSE ScanForCriteriaNoDefault(Tail(lst_of_dct), search_key,
                                           search_value, attr)

(* mutant: the entity's value compared without str() *)
RECURSIVE ScanForCriteriaNoStr(_, _, _, _)
ScanForCriteriaNoStr(lst_of_dct, search_key, search_value, attr) ==
    IF lst_of_dct = <<>> THEN MissingEntity(search_key, search_value)
    ELSE LET single_dict == Head(lst_of_dct)
         IN  IF /\ search_key \in DOMAIN single_dict.val
                /\ PyStr(search_value) = single_dict.val[search_key]
             THEN DictGet(single_dict, attr,
                          MissingAttribute(attr, search_key, search_value))
             ELSE ScanForCriteriaNoStr(Tail(lst_of_dct), search_key, search_value, attr)

(* the scan of lines 211-216 over the entities that are left *)
RECURSIVE ScanForCriteria(_, _, _, _)
ScanForCriteria(lst_of_dct, search_key, search_value, attr) ==
    IF lst_of_dct = <<>> THEN MissingEntity(search_key, search_value)
    ELSE LET single_dict == Head(lst_of_dct)
         IN  IF /\ search_key \in DOMAIN single_dict.val
                /\ search_value = StrOf(single_dict.val[search_key])
             THEN DictGet(single_dict, attr,
                          MissingAttribute(attr, search_key, search_value))
             ELSE ScanForCriteria(Tail(lst_of_dct), search_key, search_value, attr)

find_on_list_of_dicts_using_search_criteria(lst_of_dct, search_criteria, attr) ==
    LET search_key == CHOOSE k \in DOMAIN search_criteria.val : TRUE
        search_value == search_criteria.val[search_key].val
    IN  ScanForCriteria(lst_of_dct, search_key, search_value, attr)

(* variants.depreciated_attrs_less_component_data: the values listed are kept *)
depreciated_attrs_less_component_data(component, attr_data) == attr_data

LowerOrNone(v) == IF v = PyNone THEN v ELSE PyStr(Lower(v.val))

find_datastore(datastore, component_, attribute_, search_criteria) ==
    LET component == LowerOrNone(component_)
        attribute == LowerOrNone(attribute_)
        comp_data == find_on_list_of_dicts(datastore.val, component.val, FALSE)
    IN  IF IsRaise(comp_data) THEN comp_data
        ELSE IF comp_data.tag = "list"
        THEN IF search_criteria = PyNone /\ Truthy(attribute)
             THEN depreciated_attrs_less_component_data(
                      component,
                      find_on_list_of_dicts(comp_data.val, attribute.val, TRUE))
             ELSE IF Truthy(search_criteria) /\ Truthy(attribute)
             THEN find_on_list_of_dicts_using_search_criteria(
                      comp_data.val, search_criteria, attribute.val)
             ELSE PyNone
        ELSE PyNone

-----------------------------------------------------------------------------
(* SnapshotStore *)

(* json.dump / json.load: a JSON document is a record [j, val] *)
RECURSIVE JsonDump(_)
JsonDump(v) ==
    CASE v.tag = "str" -> [j |-> "string", val |-> v.val]
      [] v.tag = "none" -> [j |-> "null", val |-> <<>>]
      [] v.tag = "int" -> [j |-> "number", val |-> v.val]
      [] v.tag \in {"list", "tuple"} ->
            [j |-> "array", val |-> [i \in 1..Len(v.val) |-> JsonDump(v.val[i])]]
      [] v.tag = "dict" ->
            [j |-> "object", val |-> [k \in DOMAIN v.val |-> JsonDump(v.val[k])]]
RECURSIVE JsonLoad(_)
JsonLoad(doc) ==
    CASE doc.j = "string" -> PyStr(doc.val)
      [] doc.j = "null" -> PyNone
      [] doc.j = "number" -> PyInt(doc.val)
      [] doc.j = "array" -> PyList([i \in 1..Len(doc.val) |-> JsonLoad(doc.val[i])])
      [] doc.j = "object" -> PyDict([k \in DOMAIN doc.val |-> JsonLoad(doc.val[k])])

NoFile == [j |-> "nofile", val |-> <<>>]

(* settings.upgrade.existence_test.allowed_ends *)
allowed_ends == {"cli", "api"}

(* the file '<datastore>_<endpoint>' *)
DatastoreFile(datastore, endpoint) == <<datastore, endpoint>>

(* mutant: the file is opened without the check of lines 289-291 *)
get_datastore_unchecked(files, datastore, endpoint) ==
    IF files[DatastoreFile(datastore, endpoint)] = NoFile
    THEN Raise("FileNotFoundError")
    ELSE JsonLoad(files[DatastoreFile(datastore, endpoint)])

(* what get_datastore returns or raises, given the files *)
get_datastore(files, datastore, endpoint) ==
    IF endpoint \notin allowed_ends THEN Raise("IncorrectEndpointException")
    ELSE IF files[DatastoreFile(datastore, endpoint)] = NoFile
    THEN Raise("FileNotFoundError")
    ELSE JsonLoad(files[DatastoreFile(datastore, endpoint)])

(* whether set_datastore gets past its endpoint branches (lines 245-263) *)
SetDatastoreReads(endpoint) == endpoint = "cli" \/ endpoint = "api"

(* the file accesses get_datastore makes: none when the endpoint is refused *)
GetDatastoreIO(datastore, endpoint) ==
    IF endpoint \notin allowed_ends THEN <<>>
    ELSE <<[kind |-> "open", file |-> DatastoreFile(datastore, endpoint)]>>

-----------------------------------------------------------------------------
(* Correlator *)

ID == <<"i","d">>
HOST == <<"h","o","s","t">>
CAPSULE == <<"c","a","p","s","u","l","e">>

(* constants.CLI_ATTRIBUTES_KEY, for the components modelled *)
CLI_ATTRIBUTES_KEY == (HOST :> ID) @@ (CAPSULE :> ID)

(* settings.upgrade.supported_sat_versions, from_version and to_version *)
V_FROM == <<"6",".","1">>
V_TO == <<"6",".","2">>
supported_sat_versions == <<V_FROM, V_TO>>

(* list.index(x): 0-based position, -1 standing for ValueError *)
Index(seq, x) ==
    IF \E i \in 1..Len(seq) : seq[i] = x
    THEN (CHOOSE i \in 1..Len(seq) : seq[i] = x /\ \A h \in 1..(i - 1) : seq[h] # x) - 1
    ELSE -1

(* attribute[i] of a tuple *)
TupleItem(tuple, i) ==
    IF i < 0 THEN Raise("ValueError")
    ELSE IF i + 1 > Len(tuple.val) THEN Raise("IndexError")
    ELSE tuple.val[i + 1]

(* `'missing' in v` of lines 381 and 383: TypeError on a value that is no container *)
InRaises(v) == v.tag \in {"none", "int"}
MissingIn(v) ==
    CASE v.tag = "str" -> Contains(MISSING, v.val)
      [] v.tag \in {"list", "tuple"} -> \E i \in 1..Len(v.val) : v.val[i] = PyStr(MISSING)
      [] v.tag = "dict" -> MISSING \in DOMAIN v.val
      [] OTHER -> FALSE

(* one pass of the loop body, lines 369-387: the pair appended, or the error *)
ComparePair(predata, postdata, component, atr, test_case, pre_attr, post_attr) ==
    LET criteria == PyDict(atr :> PyStr(StrOf(test_case)))
        preupgrade_entity == find_datastore(predata, component, pre_attr, criteria)
        postupgrade_entity == find_datastore(postdata, component, post_attr, criteria)
    IN  IF IsRaise(preupgrade_entity) THEN preupgrade_entity
        ELSE IF IsRaise(postupgrade_entity) THEN postupgrade_entity
        ELSE IF \/ Contains(MISSING, StrOf(preupgrade_entity))
                \/ Contains(MISSING, StrOf(postupgrade_entity))
        THEN IF InRaises(preupgrade_entity) THEN Raise("TypeError")
             ELSE IF MissingIn(preupgrade_entity)
             THEN PyTuple(<<preupgrade_entity, PyStr(IN_PREUPGRADE)>>)
             ELSE PyTuple(<<postupgrade_entity, PyStr(IN_POSTUPGRADE)>>)
        ELSE PyTuple(<<preupgrade_entity, postupgrade_entity>>)

(* the loop of lines 368-388 over the key values that are left *)
RECURSIVE CompareLoop(_, _, _, _, _, _, _, _)
CompareLoop(test_cases, predata, postdata, component, atr, pre_attr, post_attr, entity_values) ==
    IF test_cases = <<>> THEN PyList(entity_values)
    ELSE LET pair == ComparePair(predata, postdata, component, atr,
                                 Head(test_cases), pre_attr, post_attr)
         IN  IF IsRaise(pair) THEN pair
             ELSE CompareLoop(Tail(test_cases), predata, postdata, component, atr,
                              pre_attr, post_attr, Append(entity_values, pair))

(* lines 355-362: the attribute names of the two versions, or the error *)
PreAttr(conf, attribute) ==
    CASE attribute.tag = "tuple" ->
            TupleItem(attribute, Index(supported_sat_versions, conf.from_version))
      [] attribute.tag = "str" -> attribute
      [] OTHER -> Raise("TypeError")
PostAttr(conf, attribute) ==
    CASE attribute.tag = "tuple" ->
            TupleItem(attribute, Index(supported_sat_versions, conf.to_version))
      [] attribute.tag = "str" -> attribute
      [] OTHER -> Raise("TypeError")

(* line 367 *)
KeyAttribute(conf, component) ==
    IF conf.endpoint = "api" THEN PyStr(ID)
    ELSE IF component.tag = "str" /\ component.val \in DOMAIN CLI_ATTRIBUTES_KEY
    THEN PyStr(CLI_ATTRIBUTES_KEY[component.val])
    ELSE Raise("KeyError")

compare_postupgrade(files, conf, component, attribute) ==
    LET pre_attr == PreAttr(conf, attribute)
        post_attr == PostAttr(conf, attribute)
        predata == get_datastore(files, "preupgrade", conf.endpoint)
        postdata == get_datastore(files, "postupgrade", conf.endpoint)
        atr == KeyAttribute(conf, component)
        test_cases == find_datastore(predata, component, atr, PyNone)
    IN  IF IsRaise(pre_attr) THEN pre_attr
        ELSE IF IsRaise(post_attr) THEN post_attr
        ELSE IF IsRaise(predata) THEN predata
        ELSE IF IsRaise(postdata) THEN postdata
        ELSE IF IsRaise(atr) THEN atr
        ELSE IF IsRaise(test_cases) THEN test_cases
        ELSE IF test_cases.tag # "list" THEN Raise("TypeError")
        ELSE CompareLoop(test_cases.val, predata, postdata, component, atr.val,
                         pre_attr, post_attr, <<>>)

(* the files compare_postupgrade opens, lines 364-365 *)
ComparePostupgradeIO(files, conf, component, attribute) ==
    IF IsRaise(PreAttr(conf, attribute)) \/ IsRaise(PostAttr(conf, attribute)) THEN <<>>
    ELSE IF IsRaise(get_datastore(files, "preupgrade", conf.endpoint))
    THEN GetDatastoreIO("preupgrade", conf.endpoint)
    ELSE GetDatastoreIO("preupgrade", conf.endpoint)
            \o GetDatastoreIO("postupgrade", conf.endpoint)

-----------------------------------------------------------------------------
(* TemplateStore *)

supported_templates == {"job-template", "template", "partition-table"}

(* the characters of the names that go into paths and messages *)
NameChars(name) ==
    CASE name = "preupgrade" -> <<"p","r","e","u","p","g","r","a","d","e">>
      [] name = "postupgrade" -> <<"p","o","s","t","u","p","g","r","a","d","e">>
      [] name = "job-template" -> <<"j","o","b","-","t","e","m","p","l","a","t","e">>
      [] name = "template" -> <<"t","e","m","p","l","a","t","e">>
      [] name = "partition-table" ->
            <<"p","a","r","t","i","t","i","o","n","-","t","a","b","l","e">>
      [] name = "snippet" -> <<"s","n","i","p","p","e","t">>
ERB == <<".","e","r","b">>
TEMPLATES_DIR == <<"_","t","e","m","p","l","a","t","e","s">>
TEMPLATE_OF_ID == <<" ","t","e","m","p","l","a","t","e"," ","o","f"," ","I","D"," ">>
IS_MISSING == <<" ","i","s"," ">> \o MISSING
MISSING_IN_VERSION ==
    <<" ">> \o MISSING \o <<" ","i","n"," ","V","e","r","s","i","o","n"," ">>
TRUE_TEXT == <<"t","r","u","e">>

(* f'{state}_templates/{template_type}' and a file in it *)
TemplatesPath(state, template_type) ==
    NameChars(state) \o TEMPLATES_DIR \o <<"/">> \o NameChars(template_type)
TemplatePath(state, template_type, file_name) ==
    TemplatesPath(state, template_type) \o <<"/">> \o file_name

(* str.strip(chars) *)
RECURSIVE LStrip(_, _)
LStrip(s, chars) ==
    IF s # <<>> /\ Head(s) \in chars THEN LStrip(Tail(s), chars) ELSE s
RECURSIVE RStrip(_, _)
RStrip(s, chars) ==
    IF s # <<>> /\ s[Len(s)] \in chars THEN RStrip(SubSeq(s, 1, Len(s) - 1), chars) ELSE s
Strip(s, chars) == RStrip(LStrip(s, chars), chars)
Whitespace == {" ", "\t", "\n"}

NoDir == [exists |-> FALSE, files |-> <<>>]

(* lines 145-147: each template is read from the satellite and written *)
RECURSIVE WriteTemplates(_, _, _, _)
WriteTemplates(files, template_ids, dumps, time) ==
    IF template_ids = <<>> THEN files
    ELSE LET name == Head(template_ids) \o ERB
             file == [content |-> Head(dumps), mtime |-> time + 1]
             rest == [f \in DOMAIN files \ {name} |-> files[f]]
         IN  WriteTemplates((name :> file) @@ rest, Tail(template_ids), Tail(dumps),
                            time + 1)

(* the directory after _template_writer *)
template_writer(dir, template_ids, dumps, time) ==
    [exists |-> TRUE, files |-> WriteTemplates(dir.files, template_ids, dumps, time)]

(* os.listdir: the names of a directory in any order *)
Listings(dir) ==
    {l \in [1..Cardinality(DOMAIN dir.files) -> DOMAIN dir.files] :
        \A i, j \in DOMAIN l : i # j => l[i] # l[j]}
SomeListing(dir) == CHOOSE l \in Listings(dir) : TRUE

(* find_templatestore; `listing` is the order in which os.listdir gives the names *)
find_templatestore(store_, templatestorestate, template_type, template_id_, listing) ==
    LET dir == store_[<<templatestorestate, template_type>>]
    IN  IF ~Truthy(template_id_)
        THEN IF ~dir.exists THEN Raise("FileNotFoundError")
             ELSE PyList([i \in 1..Len(listing) |->
                            PyStr(Strip(listing[i], {".", "e", "r", "b"}))])
        ELSE LET template_id == Strip(template_id_.val, Whitespace)
                 file_name == template_id \o ERB
             IN  IF ~(dir.exists /\ file_name \in DOMAIN dir.files)
                 THEN PyStr(NameChars(template_type) \o TEMPLATE_OF_ID
                                \o template_id \o IS_MISSING)
                 ELSE PyTuple(<<PyStr(TemplatePath(templatestorestate, template_type,
                                                   file_name)),
                                PyStr(dir.files[file_name].content)>>)

(* `x, y = v`: the two items, or ValueError *)
Unpacks(v) ==
    /\ v.tag \in {"str", "list", "tuple"}
    /\ Len(v.val) = 2
Item(v, i) == IF v.tag = "str" THEN PyStr(<<v.val[i]>>) ELSE v.val[i]

(* the file a path names, if any *)
HasFile(store_, path) ==
    \E d \in DOMAIN store_ : \E f \in DOMAIN store_[d].files :
        TemplatePath(d[1], d[2], f) = path
FileAt(store_, path) ==
    LET d == CHOOSE d \in DOMAIN store_ : \E f \in DOMAIN store_[d].files :
                 TemplatePath(d[1], d[2], f) = path
        f == CHOOSE f \in DOMAIN store_[d].files : TemplatePath(d[1], d[2], f) = path
    IN  store_[d].files[f]

(* filecmp.cmp(f1, f2), shallow: equal os.stat signatures (size, mtime) *)
(* settle it, else equal sizes and equal contents                       *)
filecmp(store_, f1, f2) ==
    LET s1 == FileAt(store_, f1)
        s2 == FileAt(store_, f2)
    IN  IF Len(s1.content) = Len(s2.content) /\ s1.mtime = s2.mtime THEN TRUE
        ELSE IF Len(s1.content) # Len(s2.content) THEN FALSE
        ELSE s1.content = s2.content

(* one pass of the loop body, lines 430-442: the outcome appended, or the error *)
CompareTemplate(store_, conf, template_type, template_id, listing) ==
    LET pre == find_templatestore(store_, "preupgrade", template_type, template_id,
                                  listing)
        post == find_templatestore(store_, "postupgrade", template_type, template_id,
                                   SomeListing(store_[<<"postupgrade", template_type>>]))
    IN  IF IsRaise(pre) THEN pre
        ELSE IF ~Unpacks(pre) THEN Raise("ValueError")
        ELSE IF IsRaise(post) THEN post
        ELSE IF ~Unpacks(post) THEN Raise("ValueError")
        ELSE LET prefile == Item(pre, 1)
                 pre_template == Item(pre, 2)
                 postfile == Item(post, 1)
                 post_template == Item(post, 2)
             IN  IF \/ Contains(MISSING, StrOf(pre_template))
                    \/ Contains(MISSING, StrOf(post_template))
                 THEN IF InRaises(pre_template) THEN Raise("TypeError")
                      ELSE IF MissingIn(pre_template)
                      THEN PyTuple(<<prefile,
                                     PyStr(MISSING_IN_VERSION \o conf.from_version)>>)
                      ELSE PyTuple(<<postfile,
                                     PyStr(MISSING_IN_VERSION \o conf.to_version)>>)
                 ELSE IF ~(prefile.tag = "str" /\ postfile.tag = "str"
                           /\ HasFile(store_, prefile.val)
                           /\ HasFile(store_, postfile.val))
                 THEN Raise("FileNotFoundError")
                 ELSE IF filecmp(store_, prefile.val, postfile.val)
                 THEN PyTuple(<<PyStr(TRUE_TEXT), PyStr(TRUE_TEXT)>>)
                 ELSE PyTuple(<<pre_template, post_template>>)

(* the loop of lines 429-443 over the ids that are left *)
RECURSIVE CompareTemplatesLoop(_, _, _, _, _, _)
CompareTemplatesLoop(store_, conf, template_type, template_ids, listing, entity_values) ==
    IF template_ids = <<>> THEN PyList(entity_values)
    ELSE LET outcome == CompareTemplate(store_, conf, template_type, Head(template_ids),
                                        listing)
         IN  IF IsRaise(outcome) THEN outcome
             ELSE CompareTemplatesLoop(store_, conf, template_type, Tail(template_ids),
                                       listing, Append(entity_values, outcome))

compare_templates(store_, conf, template_type, listing) ==
    IF template_type \notin supported_templates
    THEN Raise("IncorrectTemplateTypeException")
    ELSE LET template_ids == find_templatestore(store_, "preupgrade", template_type,
                                                PyNone, listing)
         IN  IF IsRaise(template_ids) THEN template_ids
             ELSE CompareTemplatesLoop(store_, conf, template_type, template_ids.val,
                                       listing, <<>>)

-----------------------------------------------------------------------------
(* DiffEngine: difflib.Differ and assert_templates *)

(* str.splitlines() *)
RECURSIVE SplitLinesFrom(_, _)
SplitLinesFrom(text, line) ==
    IF text = <<>> THEN (IF line = <<>> THEN <<>> ELSE <<line>>)
    ELSE IF Head(text) = "\n" THEN <<line>> \o SplitLinesFrom(Tail(text), <<>>)
    ELSE SplitLinesFrom(Tail(text), Append(line, Head(text)))
SplitLines(text) == SplitLinesFrom(text, <<>>)

(* a dump without the blank after the code *)
DiffLineNoBlank(tag, line) == <<tag>> \o line

(* Differ._dump: the two-character code and the line *)
DiffLine(tag, line) == <<tag, " ">> \o line
Dump(tag, lines) == [n \in 1..Len(lines) |-> DiffLine(tag, lines[n])]

(* SequenceMatcher.find_longest_match: the length of the block that starts at *)
(* a[i], b[j], and the longest block, the earliest in a and then in b        *)
RECURSIVE MatchLen(_, _, _, _)
MatchLen(a, b, i, j) ==
    IF i <= Len(a) /\ j <= Len(b) /\ a[i] = b[j] THEN 1 + MatchLen(a, b, i + 1, j + 1)
    ELSE 0
Earlier(m, n) == m[1] < n[1] \/ (m[1] = n[1] /\ m[2] < n[2])
find_longest_match(a, b) ==
    LET starts == (1..Len(a)) \X (1..Len(b))
    IN  CHOOSE m \in starts :
            \A n \in starts \ {m} :
                \/ MatchLen(a, b, m[1], m[2]) > MatchLen(a, b, n[1], n[2])
                \/ /\ MatchLen(a, b, m[1], m[2]) = MatchLen(a, b, n[1], n[2])
                   /\ Earlier(m, n)

(* Differ._plain_replace *)
plain_replace(a, b) ==
    IF Len(b) < Len(a) THEN Dump("+", b) \o Dump("-", a)
    ELSE Dump("-", a) \o Dump("+", b)

(* Differ.compare over the opcodes of the matching blocks; the lines of a    *)
(* block to replace are single characters here, never close to one another, *)
(* so that _fancy_replace hands the block to _plain_replace                  *)
RECURSIVE compare(_, _)
compare(a, b) ==
    IF a = <<>> THEN Dump("+", b)
    ELSE IF b = <<>> THEN Dump("-", a)
    ELSE LET m == find_longest_match(a, b)
             k == MatchLen(a, b, m[1], m[2])
         IN  IF k = 0 THEN plain_replace(a, b)
             ELSE compare(SubSeq(a, 1, m[1] - 1), SubSeq(b, 1, m[2] - 1))
                  \o Dump(" ", SubSeq(a, m[1], m[1] + k - 1))
                  \o compare(SubSeq(a, m[1] + k, Len(a)), SubSeq(b, m[2] + k, Len(b)))

(* str.startswith and the list comprehensions of lines 481-482 *)
StartsWith(s, c) == s # <<>> /\ Head(s) = c
Elements(difference, c) ==
    SelectSeq(difference, LAMBDA element : StartsWith(element, c))

(* an acceptance that wants every changed line to be expected *)
assert_templates_strict(varients, template_type, pre, post) ==
    LET difference == compare(SplitLines(pre), SplitLines(post))
        changed == Elements(difference, "+") \o Elements(difference, "-")
    IN  IF changed = <<>>
        THEN [value |-> PyBool(FALSE), output |-> difference]
        ELSE IF template_type \notin DOMAIN varients
        THEN [value |-> Raise("KeyError"), output |-> <<>>]
        ELSE IF \A n \in 1..Len(changed) : \E expected_varients \in varients[template_type] :
                    Contains(changed[n], expected_varients)
        THEN [value |-> PyBool(TRUE), output |-> <<>>]
        ELSE [value |-> PyBool(FALSE), output |-> difference]

(* assert_templates: [value, output] *)
assert_templates(varients, template_type, pre, post) ==
    LET difference == compare(SplitLines(pre), SplitLines(post))
        changed == Elements(difference, "+") \o Elements(difference, "-")
    IN  IF changed = <<>>
        THEN [value |-> PyBool(FALSE), output |-> difference]
        ELSE IF template_type \notin DOMAIN varients
        THEN [value |-> Raise("KeyError"), output |-> <<>>]
        ELSE IF \E n \in 1..Len(changed) : \E expected_varients \in varients[template_type] :
                    Contains(changed[n], expected_varients)
        THEN [value |-> PyBool(TRUE), output |-> <<>>]
        ELSE [value |-> PyBool(FALSE), output |-> difference]

-----------------------------------------------------------------------------
(* The data the collection step can have persisted *)

MaxEntities == 2

IP == <<"i","p">>
ROLE == <<"r","o","l","e">>

(* entities of the component 'host', keyed by id, with or without an ip.  *)
(* hammer's csv gives strings only; the API's JSON also numbers, nulls and *)
(* nested values                                                          *)
CliEntities ==
    { PyDict((ID :> PyStr(<<"1">>)) @@ (IP :> PyStr(<<"a">>))),
      PyDict((ID :> PyStr(<<"1">>)) @@ (IP :> PyStr(MISSING))),
      PyDict((ID :> PyStr(<<"2">>)) @@ (IP :> PyStr(<<"b">>))),
      PyDict(ID :> PyStr(<<"2">>)) }
ApiEntities ==
    { PyDict((ID :> PyInt(1)) @@ (IP :> PyStr(<<"a">>))),
      PyDict((ID :> PyInt(1)) @@ (IP :> PyNone)),
      PyDict((ID :> PyInt(1)) @@ (IP :> PyStr(MISSING))),
      PyDict((ID :> PyInt(2)) @@ (IP :> PyList(<<PyStr(<<"b">>)>>))),
      PyDict(ID :> PyInt(2)),
      PyDict(IP :> PyStr(<<"a">>)) }
Entities(endpoint) == IF endpoint = "cli" THEN CliEntities ELSE ApiEntities

EntityLists(endpoint) == UNION {[1..n -> Entities(endpoint)] : n \in 0..MaxEntities}

(* a snapshot: one record per component, here 'capsule' (empty) and 'host' *)
Snapshot(entities) ==
    PyList(<<PyDict(CAPSULE :> PyList(<<>>)), PyDict(HOST :> PyList(entities))>>)

Snapshots(endpoint) == {Snapshot(entities) : entities \in EntityLists(endpoint)}

Labels == {"preupgrade", "postupgrade"}
Endpoints == {"cli", "api", "web"}
DatastoreFiles == {DatastoreFile(d, e) : d \in Labels, e \in Endpoints}

Settings(endpoint) ==
    [endpoint |-> endpoint, from_version |-> V_FROM, to_version |-> V_TO]

NoCall == [op |-> "none", args |-> <<>>]

(* both snapshots persisted under the configured endpoint, nothing else on disk *)
Persisted(endpoint, pre, post) ==
    [f \in DatastoreFiles |->
        IF f = DatastoreFile("preupgrade", endpoint) THEN JsonDump(pre)
        ELSE IF f = DatastoreFile("postupgrade", endpoint) THEN JsonDump(post)
        ELSE NoFile]

Idle ==
    /\ io = <<>>
    /\ differ = 0
    /\ printed = <<>>
    /\ call = NoCall
    /\ result = PyNone

(* a call returns: what it leaves behind besides the files *)
Returns(op, args, value, accesses, comparisons, output) ==
    /\ call' = [op |-> op, args |-> args]
    /\ result' = value
    /\ io' = accesses
    /\ differ' = comparisons
    /\ printed' = output

Awaits(args) == [op |-> "none", args |-> args]
NoVariants == <<>>
NoTemplates == <<>>
NoHistory == <<>>

-----------------------------------------------------------------------------
(* SpecCorrelator: compare_postupgrade over every pair of persisted snapshots *)

Components == {PyStr(HOST)}
AttributeSpecs ==
    { PyStr(IP), PyTuple(<<PyStr(IP), PyStr(<<"I","P">>)>>), PyInt(0) }

InitCorrelator ==
    /\ \E endpoint \in allowed_ends :
       \E pre \in Snapshots(endpoint), post \in Snapshots(endpoint) :
          /\ settings = Settings(endpoint)
          /\ datastores = Persisted(endpoint, pre, post)
          /\ put = [f \in DatastoreFiles |->
                      IF f = DatastoreFile("preupgrade", endpoint) THEN pre
                      ELSE IF f = DatastoreFile("postupgrade", endpoint) THEN post
                      ELSE PyNone]
    /\ templates = NoTemplates /\ written = NoHistory /\ clock = 0
    /\ template_varients = NoVariants
    /\ Idle

ComparePostupgrade(component, attribute) ==
    /\ Returns("compare_postupgrade", <<component, attribute>>,
               compare_postupgrade(datastores, settings, component, attribute),
               ComparePostupgradeIO(datastores, settings, component, attribute), 0, <<>>)
    /\ UNCHANGED store

NextCorrelator ==
    \E component \in Components, attribute \in AttributeSpecs :
        ComparePostupgrade(component, attribute)

SpecCorrelator == InitCorrelator /\ [][NextCorrelator]_vars

-----------------------------------------------------------------------------
(* SpecLocator: find_datastore and the criteria search over one snapshot *)

(* only the preupgrade snapshot persisted *)
PersistedPre(endpoint, pre) ==
    [f \in DatastoreFiles |->
        IF f = DatastoreFile("preupgrade", endpoint) THEN JsonDump(pre) ELSE NoFile]

ComponentNames == {PyStr(HOST), PyStr(<<"H","o","s","t">>), PyStr(ROLE), PyNone}
AttributeNames == {PyStr(ID), PyStr(IP), PyStr(<<"I","P">>), PyStr(<<>>), PyNone}
Criteria ==
    { PyDict(ID :> PyStr(<<"1">>)), PyDict(ID :> PyStr(<<"2">>)),
      PyDict(ID :> PyStr(NONE_TEXT)), PyDict(IP :> PyStr(<<"a">>)) }

InitLocator ==
    /\ \E endpoint \in allowed_ends :
       \E pre \in Snapshots(endpoint) :
          /\ settings = Settings(endpoint)
          /\ datastores = PersistedPre(endpoint, pre)
          /\ put = [f \in DatastoreFiles |->
                      IF f = DatastoreFile("preupgrade", endpoint) THEN pre ELSE PyNone]
    /\ templates = NoTemplates /\ written = NoHistory /\ clock = 0
    /\ template_varients = NoVariants
    /\ Idle

(* find_datastore(get_datastore(label, endpoint), component, attribute, criteria) *)
FindDatastore(label, component, attribute, search_criteria) ==
    LET datastore == get_datastore(datastores, label, settings.endpoint)
    IN  /\ Returns("find_datastore", <<component, attribute, search_criteria>>,
                   IF IsRaise(datastore) THEN datastore
                   ELSE find_datastore(datastore, component, attribute, search_criteria),
                   GetDatastoreIO(label, settings.endpoint), 0, <<>>)
        /\ UNCHANGED store

(* the entities of 'host' in the snapshot persisted under `label` *)
HostEntities(label) ==
    JsonLoad(datastores[DatastoreFile(label, settings.endpoint)]).val[2].val[HOST].val

(* _find_on_list_of_dicts_using_search_criteria called on the entities of 'host' *)
FindUsingSearchCriteria(search_criteria, attr) ==
    /\ Returns("find_using_search_criteria", <<search_criteria, attr>>,
               find_on_list_of_dicts_using_search_criteria(
                   HostEntities("preupgrade"), search_criteria, attr.val),
               <<>>, 0, <<>>)
    /\ UNCHANGED store

NextLocator ==
    \/ \E component \in ComponentNames, attribute \in AttributeNames,
          search_criteria \in Criteria \cup {PyNone} :
            FindDatastore("preupgrade", component, attribute, search_criteria)
    \/ \E search_criteria \in Criteria, attr \in {PyStr(ID), PyStr(IP), PyStr(ROLE)} :
            FindUsingSearchCriteria(search_criteria, attr)

SpecLocator == InitLocator /\ [][NextLocator]_vars

-----------------------------------------------------------------------------
(* SpecStore: set_datastore and get_datastore, starting with no file *)

(* what the readers can have collected: no entity or one *)
StoreSnapshots(endpoint) ==
    {Snapshot(<<>>)} \cup {Snapshot(<<entity>>) : entity \in Entities(endpoint)}

InitStore ==
    /\ settings = Settings("cli")
    /\ datastores = [f \in DatastoreFiles |-> NoFile]
    /\ put = [f \in DatastoreFiles |-> PyNone]
    /\ templates = NoTemplates /\ written = NoHistory /\ clock = 0
    /\ template_varients = NoVariants
    /\ Idle

(* set_datastore: the readers are called and the file written, or the *)
(* endpoint is refused                                                *)
SetDatastore(datastore, endpoint) ==
    IF SetDatastoreReads(endpoint)
    THEN \E all_comps_data \in StoreSnapshots(endpoint) :
            /\ datastores' = [datastores EXCEPT
                                 ![DatastoreFile(datastore, endpoint)] =
                                     JsonDump(all_comps_data)]
            /\ put' = [put EXCEPT ![DatastoreFile(datastore, endpoint)] = all_comps_data]
            /\ Returns("set_datastore", <<datastore, endpoint>>, PyNone,
                       <<[kind |-> "read", file |-> <<"satellite", endpoint>>],
                         [kind |-> "write", file |-> DatastoreFile(datastore, endpoint)]>>,
                       0, <<>>)
            /\ UNCHANGED <<settings, template_varients, templates, clock, written>>
    ELSE /\ Returns("set_datastore", <<datastore, endpoint>>,
                    Raise("IncorrectEndpointException"), <<>>, 0, <<>>)
         /\ UNCHANGED store

GetDatastore(datastore, endpoint) ==
    /\ Returns("get_datastore", <<datastore, endpoint>>,
               get_datastore(datastores, datastore, endpoint),
               GetDatastoreIO(datastore, endpoint), 0, <<>>)
    /\ UNCHANGED store

NextStore ==
    \/ \E datastore \in Labels, endpoint \in Endpoints : SetDatastore(datastore, endpoint)
    \/ \E datastore \in Labels, endpoint \in Endpoints : GetDatastore(datastore, endpoint)

SpecStore == InitStore /\ [][NextStore]_vars

(* C10: set_datastore and get_datastore refuse an endpoint other than 'cli' *)
(* and 'api' with IncorrectEndpointException before any read or write, so   *)
(* that no file is created, read or changed; with a valid endpoint,         *)
(* get_datastore returns the snapshot set_datastore stored under the same   *)
(* name and endpoint.                                                       *)
C10_EndpointValidation ==
    /\ [][ ( /\ call'.op \in {"set_datastore", "get_datastore"}
             /\ call'.args[2] \notin {"cli", "api"} ) =>
               ( /\ result' = Raise("IncorrectEndpointException")
                 /\ io' = <<>>
                 /\ datastores' = datastores ) ]_vars
    /\ []( ( /\ call.op = "get_datastore"
             /\ call.args[2] \in {"cli", "api"}
             /\ put[<<call.args[1], call.args[2]>>] # PyNone ) =>
               result = put[<<call.args[1], call.args[2]>>] )

(* C10 witness: an endpoint refused by get_datastore while snapshots are stored *)
C10_Witness ==
    /\ call.op = "get_datastore"
    /\ call.args[2] = "web"
    /\ result = Raise("IncorrectEndpointException")
    /\ io = <<>>
    /\ datastores[<<call.args[1], "api">>] # NoFile
    /\ Len(put[<<call.args[1], "api">>].val[2].val[HOST].val) = 1

-----------------------------------------------------------------------------
(* SpecTemplates: _template_writer, find_templatestore and compare_templates *)

MaxWrites == 3

States == {"preupgrade", "postupgrade"}
TemplateTypes == supported_templates \cup {"snippet"}
TemplateDirs == {<<state, type>> : state \in States, type \in TemplateTypes}

TemplateIds == {<<"1">>, <<"b","1">>}
TemplateIdLists ==
    {<<>>} \cup {<<a>> : a \in TemplateIds}
           \cup {<<a, b>> : a \in TemplateIds, b \in TemplateIds}
TEXT_ABC == <<"A","\n","B","\n","C">>
TEXT_AXC == <<"A","\n","X","\n","C">>
TEXT_NOTE == <<"#"," ">> \o MISSING
Texts == {TEXT_ABC, TEXT_AXC, TEXT_NOTE}

InitTemplates ==
    /\ settings = Settings("cli")
    /\ datastores = [f \in DatastoreFiles |-> NoFile]
    /\ put = [f \in DatastoreFiles |-> PyNone]
    /\ templates = [d \in TemplateDirs |-> NoDir]
    /\ written = [d \in TemplateDirs |-> NoDir]
    /\ clock = 0
    /\ template_varients = NoVariants
    /\ Idle

(* _template_writer(datastorestate, template_type, template_ids): every id is *)
(* dumped from the satellite and written to its file                         *)
TemplateWriter(datastorestate, template_type, template_ids) ==
    /\ clock + Len(template_ids) <= MaxWrites
    /\ \E dumps \in [1..Len(template_ids) -> Texts] :
        LET d == <<datastorestate, template_type>>
        IN  /\ templates' = [templates EXCEPT
                                ![d] = template_writer(templates[d], template_ids,
                                                       dumps, clock)]
            /\ written' = [written EXCEPT
                              ![d] = [exists |-> TRUE,
                                      files |-> [i \in {template_ids[n] :
                                                           n \in 1..Len(template_ids)} |->
                                                   dumps[CHOOSE n \in 1..Len(template_ids) :
                                                             /\ template_ids[n] = i
                                                             /\ \A m \in (n+1)..Len(template_ids) :
                                                                    template_ids[m] # i]]
                                                @@ written[d].files]]
            /\ clock' = clock + Len(template_ids)
            /\ Returns("template_writer", <<datastorestate, template_type, template_ids>>,
                       PyNone,
                       [n \in 1..Len(template_ids) |->
                           [kind |-> "write",
                            file |-> <<datastorestate, template_type, template_ids[n]>>]],
                       0, <<>>)
            /\ UNCHANGED <<settings, template_varients, datastores, put>>

FindTemplatestore(templatestorestate, template_type, template_id) ==
    \E listing \in Listings(templates[<<templatestorestate, template_type>>]) :
        /\ Returns("find_templatestore",
                   <<templatestorestate, template_type, template_id, listing>>,
                   find_templatestore(templates, templatestorestate, template_type,
                                      template_id, listing),
                   <<>>, 0, <<>>)
        /\ UNCHANGED store

CompareTemplates(template_type) ==
    \E listing \in Listings(templates[<<"preupgrade", template_type>>]) :
        /\ Returns("compare_templates", <<template_type, listing>>,
                   compare_templates(templates, settings, template_type, listing),
                   <<>>, 0, <<>>)
        /\ UNCHANGED store

NextTemplates ==
    \/ \E state \in States, template_ids \in TemplateIdLists :
            TemplateWriter(state, "template", template_ids)
    \/ \E state \in States, type \in {"template", "job-template"},
          template_id \in {PyNone, PyStr(<<" ","1">>)}
                              \cup {PyStr(i) : i \in TemplateIds} :
            FindTemplatestore(state, type, template_id)
    \/ \E type \in {"template", "job-template", "snippet"} : CompareTemplates(type)

SpecTemplates == InitTemplates /\ [][NextTemplates]_vars

-----------------------------------------------------------------------------
(* SpecDiff: assert_templates over every pair of texts and every table *)

MaxLines == 3

RECURSIVE LinesUpTo(_, _)
LinesUpTo(alphabet, n) ==
    IF n = 0 THEN {<<>>}
    ELSE LET shorter == LinesUpTo(alphabet, n - 1)
         IN  shorter \cup {Append(l, c) : l \in shorter, c \in alphabet}
RECURSIVE JoinLines(_)
JoinLines(lines) ==
    IF lines = <<>> THEN <<>>
    ELSE IF Len(lines) = 1 THEN <<lines[1]>>
    ELSE <<lines[1], "\n">> \o JoinLines(Tail(lines))
PreTexts == {JoinLines(l) : l \in LinesUpTo({"A", "B", "C"}, MaxLines)}
PostTexts == {JoinLines(l) : l \in LinesUpTo({"A", "X", "C"}, MaxLines)}

Rules == {<<"+","X">>, <<"+"," ","X">>, <<"-"," ","B"," ",":"," ","d","r","o","p","p","e","d">>}
VariantTables ==
    {[type \in supported_templates |-> IF type = "template" THEN rules ELSE {}] :
        rules \in SUBSET Rules}

InitDiff ==
    /\ settings = Settings("cli")
    /\ template_varients \in VariantTables
    /\ datastores = [f \in DatastoreFiles |-> NoFile]
    /\ put = [f \in DatastoreFiles |-> PyNone]
    /\ templates = NoTemplates /\ written = NoHistory /\ clock = 0
    /\ io = <<>> /\ differ = 0 /\ printed = <<>> /\ result = PyNone
    /\ \E template_type \in {"template", "snippet"}, pre \in PreTexts, post \in PostTexts :
          call = Awaits(<<template_type, pre, post>>)

(* the test calls assert_templates with the pair it was parametrized with *)
AssertTemplates ==
    /\ call.op = "none"
    /\ LET template_type == call.args[1]
           pre == call.args[2]
           post == call.args[3]
           outcome == assert_templates(template_varients, template_type, pre, post)
       IN  Returns("assert_templates", <<template_type, pre, post>>, outcome.value,
                   <<>>, 1, outcome.output)
    /\ UNCHANGED store

NextDiff == AssertTemplates

SpecDiff == InitDiff /\ [][NextDiff]_vars

-----------------------------------------------------------------------------
(* Claims on the DiffEngine, under SpecDiff *)

TextBefore == <<"A","\n","B","\n","C">>
TextAfter == <<"A","\n","X","\n","C">>
RulePlusX == <<"+","X">>
RulePlusSpaceX == <<"+"," ","X">>
TheDiff == << <<" "," ","A">>, <<"-"," ","B">>, <<"+"," ","X">>, <<" "," ","C">> >>

Asserted ==
    /\ call.op = "assert_templates"
    /\ call.args = <<"template", TextBefore, TextAfter>>

(* C5 as stated: with before "A\nB\nC" and after "A\nX\nC", a table that     *)
(* contains the rule "+X" gives true, and an empty table gives false and the  *)
(* diff is printed.                                                           *)
C5_Original ==
    Asserted =>
        /\ RulePlusX \in template_varients["template"] => result = PyBool(TRUE)
        /\ template_varients["template"] = {} =>
              result = PyBool(FALSE) /\ printed = TheDiff

(* C5 amended: with before "A\nB\nC" and after "A\nX\nC", a table that       *)
(* contains the rule "+ X" (the diff line: '+', a space, the line) gives true; *)
(* a table whose only rule is "+X" gives false like the empty table, and the  *)
(* diff is printed whenever the result is false.                              *)
C5_VariantAccepted ==
    Asserted =>
        /\ RulePlusSpaceX \in template_varients["template"] =>
              result = PyBool(TRUE) /\ printed = <<>>
        /\ template_varients["template"] \in {{}, {RulePlusX}} =>
              result = PyBool(FALSE) /\ printed = TheDiff

(* C5 witness: the example accepted by the rule "+ X" alone *)
C5_Witness ==
    /\ Asserted
    /\ template_varients["template"] = {RulePlusSpaceX}
    /\ result = PyBool(TRUE)
    /\ differ = 1

(* the line-oriented diff of the two texts of the call, its changed lines, *)
(* and the rules of the table for the kind of the call                    *)
DiffOfCall == compare(SplitLines(call.args[2]), SplitLines(call.args[3]))
ChangedLines ==
    {DiffOfCall[n] : n \in {i \in 1..Len(DiffOfCall) : DiffOfCall[i][1] \in {"+", "-"}}}
RulesOfKind ==
    IF call.args[1] \in DOMAIN template_varients THEN template_varients[call.args[1]]
    ELSE {}
IsPartOf(line, rule) ==
    \E from \in 0..(Len(rule) - Len(line)) :
        \A n \in 1..Len(line) : rule[from + n] = line[n]
Expected(line) == \E rule \in RulesOfKind : IsPartOf(line, rule)

(* C11: assert_templates returns true exactly when at least one line of the *)
(* diff that starts with '+' or '-' is a substring of at least one rule of  *)
(* the table for the kind; one such line is enough whatever the other       *)
(* changed lines are, and identical texts, which have no changed line,      *)
(* give false.                                                              *)
C11_AcceptancePolicy ==
    call.op = "assert_templates" =>
        /\ result = PyBool(TRUE) <=> \E line \in ChangedLines : Expected(line)
        /\ call.args[2] = call.args[3] => ChangedLines = {} /\ result = PyBool(FALSE)

(* C11 witness: a diff accepted on one expected line although another *)
(* changed line is in no rule                                         *)
C11_Witness ==
    /\ call.op = "assert_templates"
    /\ result = PyBool(TRUE)
    /\ \E line \in ChangedLines : Expected(line)
    /\ \E line \in ChangedLines : ~Expected(line)

-----------------------------------------------------------------------------
(* Claims on the TemplateStore and compare_templates, under SpecTemplates *)

TextMissingInVersion ==
    <<" ","m","i","s","s","i","n","g"," ","i","n"," ","V","e","r","s","i","o","n"," ">>
TextTrue == <<"t","r","u","e">>
TextErb == <<".","e","r","b">>

(* the ids, and the text of an id, that were written under a state and type *)
WrittenIds(state, type) == DOMAIN written[<<state, type>>].files
WrittenText(state, type, id) == written[<<state, type>>].files[id]

(* compare_templates was called on a supported type with both states collected *)
Compares ==
    /\ call.op = "compare_templates"
    /\ call.args[1] \in {"job-template", "template", "partition-table"}
    /\ written[<<"preupgrade", call.args[1]>>].exists
    /\ written[<<"postupgrade", call.args[1]>>].exists

(* the id whose file is the n-th one that compare_templates walked over *)
WalkedId(n) == SubSeq(call.args[2][n], 1, Len(call.args[2][n]) - Len(TextErb))

(* C6: compare_templates does not fail, gives one outcome per template id  *)
(* stored in the preupgrade state, and the outcome of an id that the       *)
(* postupgrade state lacks is a pair whose second item is                  *)
(* ' missing in Version <to-version>'.                                     *)
C6_MissingReported ==
    Compares =>
        /\ result.tag = "list"
        /\ Len(result.val) = Len(call.args[2])
        /\ \A n \in 1..Len(call.args[2]) :
              WalkedId(n) \notin WrittenIds("postupgrade", call.args[1]) =>
                  /\ result.val[n].tag = "tuple"
                  /\ result.val[n].val[2] = PyStr(TextMissingInVersion \o settings.to_version)

(* C7: compare_templates gives ('true', 'true') for every id whose bodies  *)
(* are present on both sides and identical, the pair (before, after) for  *)
(* every id whose bodies are present and differ, and never runs the line  *)
(* differ.                                                                 *)
C7_FastPath ==
    Compares =>
        /\ differ = 0
        /\ \A n \in 1..Len(call.args[2]) :
              WalkedId(n) \in WrittenIds("postupgrade", call.args[1]) =>
                  LET before == WrittenText("preupgrade", call.args[1], WalkedId(n))
                      after == WrittenText("postupgrade", call.args[1], WalkedId(n))
                  IN  /\ result.tag = "list"
                      /\ Len(result.val) = Len(call.args[2])
                      /\ result.val[n] =
                            IF before = after
                            THEN PyTuple(<<PyStr(TextTrue), PyStr(TextTrue)>>)
                            ELSE PyTuple(<<PyStr(before), PyStr(after)>>)

(* C9: find_templatestore without an id returns exactly the ids written    *)
(* under the state and type, each unchanged and once, and with each listed *)
(* id it returns the text written for that id.                             *)
C9_Listing ==
    ( /\ call.op = "find_templatestore"
      /\ call.args[3] = PyNone
      /\ written[<<call.args[1], call.args[2]>>].exists ) =>
        /\ result.tag = "list"
        /\ {result.val[n].val : n \in 1..Len(result.val)}
              = WrittenIds(call.args[1], call.args[2])
        /\ Len(result.val) = Cardinality(WrittenIds(call.args[1], call.args[2]))
        /\ \A n \in 1..Len(result.val) :
              LET got == find_templatestore(templates, call.args[1], call.args[2],
                                            result.val[n], call.args[4])
              IN  /\ got.tag = "tuple"
                  /\ got.val[2] = PyStr(WrittenText(call.args[1], call.args[2],
                                                    result.val[n].val))

-----------------------------------------------------------------------------
(* Claims on the EntityLocator, under SpecLocator *)

TextEntityMissing == <<" ","e","n","t","i","t","y"," ","m","i","s","s","i","n","g">>
TextAttributeMissingFor ==
    <<" ","a","t","t","r","i","b","u","t","e"," ","m","i","s","s","i","n","g"," ",
      "f","o","r"," ">>
TextColon == <<" ",":"," ">>

CriteriaKey(search_criteria) == CHOOSE k \in DOMAIN search_criteria.val : TRUE
CriteriaValue(search_criteria) == search_criteria.val[CriteriaKey(search_criteria)].val

(* positions of the entities whose `key` attribute stringifies to `value` *)
Matching(lst, key, value) ==
    {i \in 1..Len(lst) : key \in DOMAIN lst[i].val /\ StrOf(lst[i].val[key]) = value}
Least(S) == CHOOSE i \in S : \A j \in S : i <= j

(* C1: the criteria search returns '<key> : <value> entity missing' when no *)
(* entity has `key` stringifying to `value`, '<attribute> attribute missing *)
(* for <key> : <value>' when the first matching entity lacks `attribute`,   *)
(* and otherwise that entity's value of `attribute`.                        *)
C1_FindByCriteria ==
    call.op = "find_using_search_criteria" =>
        LET key == CriteriaKey(call.args[1])
            value == CriteriaValue(call.args[1])
            attribute == call.args[2].val
            lst == HostEntities("preupgrade")
            matching == Matching(lst, key, value)
        IN  IF matching = {}
            THEN result = PyStr(key \o TextColon \o value \o TextEntityMissing)
            ELSE IF attribute \notin DOMAIN lst[Least(matching)].val
            THEN result = PyStr(attribute \o TextAttributeMissingFor \o key
                                    \o TextColon \o value)
            ELSE result = lst[Least(matching)].val[attribute]

(* C1 witness: the second entity is the first match and lacks the attribute *)
C1_Witness ==
    /\ call.op = "find_using_search_criteria"
    /\ LET key == CriteriaKey(call.args[1])
           value == CriteriaValue(call.args[1])
           lst == HostEntities("preupgrade")
       IN  /\ Matching(lst, key, value) = {2}
           /\ call.args[2].val \notin DOMAIN lst[2].val
           /\ result.tag = "str"
           /\ Contains(TextAttributeMissingFor, result.val)

(* C8: find_datastore without search criteria returns one element per     *)
(* entity of the component, in entity order: the entity's value of the    *)
(* attribute, null for an entity that lacks it.                           *)
C8_AllValues ==
    ( /\ call.op = "find_datastore"
      /\ call.args[3] = PyNone
      /\ call.args[1] # PyNone /\ Lower(call.args[1].val) = HOST
      /\ call.args[2] # PyNone /\ call.args[2].val # <<>> ) =>
        LET attribute == Lower(call.args[2].val)
            lst == HostEntities("preupgrade")
        IN  /\ result.tag = "list"
            /\ Len(result.val) = Len(lst)
            /\ \A i \in 1..Len(lst) :
                  result.val[i] = IF attribute \in DOMAIN lst[i].val
                                  THEN lst[i].val[attribute]
                                  ELSE PyNone

(* C8 witness: two entities listed, the first with a value, the second without *)
C8_Witness ==
    /\ call.op = "find_datastore"
    /\ call.args[3] = PyNone
    /\ call.args[1] = PyStr(<<"H","o","s","t">>)
    /\ call.args[2] = PyStr(<<"I","P">>)
    /\ Len(HostEntities("preupgrade")) = 2
    /\ result.tag = "list" /\ Len(result.val) = 2
    /\ result.val[1] # PyNone
    /\ IP \notin DOMAIN HostEntities("preupgrade")[2].val
    /\ result.val[2] = PyNone

-----------------------------------------------------------------------------
(* Claims on the Correlator, under SpecCorrelator *)

TextMissing == <<"m","i","s","s","i","n","g">>
TextInPreupgrade ==
    <<" ","i","n"," ","p","r","e","u","p","g","r","a","d","e"," ",
      "v","e","r","s","i","o","n">>
TextInPostupgrade ==
    <<" ","i","n"," ","p","o","s","t","u","p","g","r","a","d","e"," ",
      "v","e","r","s","i","o","n">>

(* compare_postupgrade was called with a string or tuple attribute spec *)
Compared ==
    /\ call.op = "compare_postupgrade"
    /\ call.args[2].tag \in {"str", "tuple"}
PreTarget ==
    Lower(IF call.args[2].tag = "str" THEN call.args[2].val ELSE call.args[2].val[1].val)
PostTarget ==
    Lower(IF call.args[2].tag = "str" THEN call.args[2].val ELSE call.args[2].val[2].val)

(* the key of an entity as the correlator writes it: str(None) without a key *)
KeyText(entity) == IF ID \in DOMAIN entity.val THEN StrOf(entity.val[ID]) ELSE NONE_TEXT

(* what the claims expect of a lookup by key: C1's three outcomes *)
Looked(lst, value, attribute) ==
    LET matching == Matching(lst, ID, value)
    IN  IF matching = {}
        THEN PyStr(ID \o TextColon \o value \o TextEntityMissing)
        ELSE IF attribute \notin DOMAIN lst[Least(matching)].val
        THEN PyStr(attribute \o TextAttributeMissingFor \o ID \o TextColon \o value)
        ELSE lst[Least(matching)].val[attribute]
HasMissing(v) == Contains(TextMissing, StrOf(v))

(* every entity carries a key of its own *)
Keyed(lst) ==
    /\ \A i \in 1..Len(lst) : ID \in DOMAIN lst[i].val
    /\ \A i, j \in 1..Len(lst) : i # j => KeyText(lst[i]) # KeyText(lst[j])

(* every entity has the same value of the target attribute before and after *)
Unchanged ==
    LET pre == HostEntities("preupgrade")
        post == HostEntities("postupgrade")
    IN  /\ Keyed(pre) /\ Keyed(post)
        /\ \A i \in 1..Len(pre) :
              /\ PreTarget \in DOMAIN pre[i].val
              /\ \E j \in 1..Len(post) :
                    /\ KeyText(post[j]) = KeyText(pre[i])
                    /\ PostTarget \in DOMAIN post[j].val
                    /\ post[j].val[PostTarget] = pre[i].val[PreTarget]
        /\ \A j \in 1..Len(post) :
              \E i \in 1..Len(pre) : KeyText(pre[i]) = KeyText(post[j])

(* the i-th pair is (v, v) for the value v of the i-th entity before *)
PairsOfValues ==
    LET pre == HostEntities("preupgrade")
    IN  /\ result.tag = "list"
        /\ Len(result.val) = Len(pre)
        /\ \A i \in 1..Len(pre) :
              result.val[i] = PyTuple(<<pre[i].val[PreTarget], pre[i].val[PreTarget]>>)

C3_CollapseRule ==
    Compared =>
        LET pre == HostEntities("preupgrade")
            post == HostEntities("postupgrade")
        IN  /\ result.tag = "list"
            /\ Len(result.val) = Len(pre)
            /\ \A i \in 1..Len(pre) :
                  LET k == KeyText(pre[i])
                      before == Looked(pre, k, PreTarget)
                      after == Looked(post, k, PostTarget)
                  IN  /\ HasMissing(before) =>
                            result.val[i] = PyTuple(<<before, PyStr(TextInPreupgrade)>>)
                      /\ (~HasMissing(before) /\ HasMissing(after)) =>
                            result.val[i] = PyTuple(<<after, PyStr(TextInPostupgrade)>>)
                      /\ (~HasMissing(before) /\ Matching(post, ID, k) = {}) =>
                            result.val[i] =
                                PyTuple(<<PyStr(ID \o TextColon \o k \o TextEntityMissing),
                                          PyStr(TextInPostupgrade)>>)

(* C4: absence of an entity or of an attribute on either side never raises: *)
(* the call returns one pair per key value of the before snapshot, in the   *)
(* order of its entities.                                                   *)
C4_AllMismatchesCollected ==
    Compared =>
        /\ result.tag = "list"
        /\ Len(result.val) = Len(HostEntities("preupgrade"))
        /\ \A i \in 1..Len(result.val) :
              result.val[i].tag = "tuple" /\ Len(result.val[i].val) = 2

=============================================================================
